---- MODULE Spec2Model ----
(***************************************************************************)
(* aw-watcher-window-rs (src/src/main.rs): a single-threaded watcher that  *)
(* creates a bucket, then polls the foreground window at a fixed interval  *)
(* and reports (app, title) heartbeats to an ActivityWatch server.         *)
(*                                                                         *)
(* Strings are tuples of one-character strings, so that regex matching on  *)
(* process names is computed character by character.  Timestamps are       *)
(* integers in milliseconds.  A u32 is a pair <<hi, lo>> of 16-bit limbs,  *)
(* so that poll_time + 1000 keeps its 32-bit width.                        *)
(***************************************************************************)
EXTENDS Integers, Sequences, FiniteSets, TLC

VARIABLES
    args,             \* Args (main.rs:12-41): the parsed command line
    overflow_checks,  \* build profile: TRUE = debug (overflow panics), FALSE = release (wraps)
    pc,               \* "create_bucket" (loop of 63-71), "poll" (loop of 76-183), "panicked"
    prev_app,         \* main.rs:73
    prev_title,       \* main.rs:74
    now,              \* the wall clock, in ms
    bucket,           \* the server holds the bucket (a create_bucket_simple returned Ok)
    creates,          \* create_bucket_simple calls so far
    sent,             \* every client.heartbeat call so far, in call order
    log               \* one record per iteration of the poll loop, in order

vars == <<args, overflow_checks, pc, prev_app, prev_title, now, bucket, creates, sent, log>>

----------------------------------------------------------------------------
(* Bounds of the model *)

MaxTicks == 3          \* poll-loop iterations explored
MaxCreateFails == 1    \* failed bucket creations explored

(* Program constants *)

Limb == 65536              \* a u32 (poll_time, main.rs:37) is two 16-bit limbs
PulseMargin == 1000        \* main.rs:202, poll_time + 1000
BucketBackoff == 1000      \* main.rs:68
DefaultPollLo == 5000      \* main.rs:36, default_value_t = 5000

----------------------------------------------------------------------------
(* Strings *)

chrome_exe == <<"c", "h", "r", "o", "m", "e", ".", "e", "x", "e">>
code_exe   == <<"c", "o", "d", "e", ".", "e", "x", "e">>
Docs       == <<"D", "o", "c", "s">>
main_rs    == <<"m", "a", "i", "n", ".", "r", "s">>
EmptyString == <<>>
dot_paren  == <<"a", ".", "(">>
x_paren    == <<"a", "x", "(">>

ProcessNames == {chrome_exe, code_exe}
WindowTitles == {Docs, main_rs}

----------------------------------------------------------------------------
(* u32 arithmetic on limb pairs *)

U32 == (0 .. Limb - 1) \X (0 .. Limb - 1)

U32Less(a, b) == a[1] < b[1] \/ (a[1] = b[1] /\ a[2] < b[2])

\* a + k for 0 <= k < Limb, without truncation: <<carry out of 32 bits, hi, lo>>
WideAdd(a, k) ==
    LET lo == a[2] + k
        hi == a[1] + (lo \div Limb)
    IN  <<hi \div Limb, hi % Limb, lo % Limb>>

\* u32 `+` in a build without overflow checks
WrappingAdd(a, k) == <<WideAdd(a, k)[2], WideAdd(a, k)[3]>>

\* u32 `+` overflows
AddOverflows(a, k) == WideAdd(a, k)[1] > 0

\* u32 -> u64 (`.into()`, main.rs:77), for the values a sleep is modelled with
U32ToInt(a) == a[1] * Limb + a[2]

----------------------------------------------------------------------------
(* The regex crate, for the fragment the patterns of the model use:        *)
(* literal characters, `.` (any character), `\c` (the character c), and    *)
(* `(`, which opens a group that is never closed and so does not compile.  *)

Lit(c) == [any |-> FALSE, ch |-> c]
AnyChar == [any |-> TRUE, ch |-> "."]

RECURSIVE ParseFrom(_, _)
\* Regex::new on s from position i: [ok, re], re the sequence of atoms
ParseFrom(s, i) ==
    IF i > Len(s) THEN [ok |-> TRUE, re |-> <<>>]
    ELSE IF s[i] = "\\" THEN
        IF i = Len(s) THEN [ok |-> FALSE, re |-> <<>>]
        ELSE LET rest == ParseFrom(s, i + 2)
             IN  [ok |-> rest.ok, re |-> <<Lit(s[i + 1])>> \o rest.re]
    ELSE IF s[i] = "(" THEN [ok |-> FALSE, re |-> <<>>]
    ELSE LET rest == ParseFrom(s, i + 1)
         IN  [ok |-> rest.ok,
              re |-> <<IF s[i] = "." THEN AnyChar ELSE Lit(s[i])>> \o rest.re]

RegexNew(s) == ParseFrom(s, 1)

\* the characters of the model's alphabet that regex::escape escapes
MetaChars == {".", "(", "\\"}

RECURSIVE RegexEscapeParens(_)
\* RegexEscape, escaping the parentheses only: a `.` stays a wildcard
RegexEscapeParens(s) ==
    IF s = <<>> THEN <<>>
    ELSE (IF Head(s) = "(" THEN <<"\\", Head(s)>> ELSE <<Head(s)>>)
         \o RegexEscapeParens(Tail(s))

RECURSIVE RegexEscape(_)
RegexEscape(s) ==
    IF s = <<>> THEN <<>>
    ELSE (IF Head(s) \in MetaChars THEN <<"\\", Head(s)>> ELSE <<Head(s)>>)
         \o RegexEscape(Tail(s))

\* main.rs:54 and 59: Regex::new(s).unwrap_or_else(|_| Regex::new(regex::escape(s)).unwrap())
CompilePattern(s) ==
    IF RegexNew(s).ok THEN RegexNew(s).re ELSE RegexNew(RegexEscape(s)).re

\* Regex::is_match: an unanchored search
IsMatch(re, text) ==
    \E off \in 0 .. (Len(text) - Len(re)) :
        \A j \in 1 .. Len(re) : re[j].any \/ re[j].ch = text[off + j]

\* main.rs:51-55
exclude_title_processes ==
    [i \in DOMAIN args.exclude_title_processes |-> CompilePattern(args.exclude_title_processes[i])]

\* main.rs:56-60
include_title_processes ==
    [i \in DOMAIN args.include_title_processes |-> CompilePattern(args.include_title_processes[i])]

AnyMatch(res, text) == \E i \in DOMAIN res : IsMatch(res[i], text)

\* Title, with `||` and `&&` grouped the other way: exclude_title beats the include patterns
TitleUngrouped(process_name, window_title) ==
    IF args.exclude_title
       \/ (AnyMatch(exclude_title_processes, process_name)
           /\ ~AnyMatch(include_title_processes, process_name))
    THEN process_name
    ELSE window_title

\* main.rs:126-137: the reported title
Title(process_name, window_title) ==
    IF (args.exclude_title \/ AnyMatch(exclude_title_processes, process_name))
       /\ ~AnyMatch(include_title_processes, process_name)
    THEN process_name
    ELSE window_title

\* main.rs:125: the reported app
App(process_name) == process_name

----------------------------------------------------------------------------
(* History of the poll loop *)

NoTick == [kind |-> "none", process_name |-> EmptyString, window_title |-> EmptyString,
           app |-> EmptyString, title |-> EmptyString, at |-> 0,
           before_app |-> EmptyString, before_title |-> EmptyString, sleeps |-> 0]

\* iterations of the poll loop begun so far
tick == Len(log)

\* what the most recent iteration did
last == IF log = <<>> THEN NoTick ELSE log[Len(log)]

\* iterations that reached the comparison of main.rs:139
FedTicks == {i \in DOMAIN log : log[i].kind = "sample"}

\* sleeps already performed since the latest GetForegroundWindow (main.rs:84)
PendingSleeps == IF last.kind = "no_window" THEN 1 ELSE 0

\* the heartbeats handed to the client during iteration t
HeartbeatsOf(t) == SelectSeq(sent, LAMBDA h : h.tick = t)

\* main.rs:202: the pulsetime handed to client.heartbeat; u32 -> f64 is exact
Pulsetime == WrappingAdd(args.poll_time, PulseMargin)

\* main.rs:202: poll_time + 1000 panics in a build with overflow checks
PingPanics == overflow_checks /\ AddOverflows(args.poll_time, PulseMargin)

\* ping (main.rs:186-204): the client.heartbeat call, with the outcome the server gave it
Heartbeat(app, title, timestamp, ok) ==
    [app |-> app, title |-> title, timestamp |-> timestamp,
     pulsetime |-> Pulsetime, ok |-> ok, tick |-> tick + 1]

----------------------------------------------------------------------------
(* Startup: main.rs:44-74 *)

NoRules == [exclude_title |-> FALSE, exclude_title_processes |-> <<>>,
            include_title_processes |-> <<>>]
ExcludeAllButCode ==
    [exclude_title |-> TRUE, exclude_title_processes |-> <<>>,
     include_title_processes |-> << <<"c", "o", ".", "e">> >>]
ExcludeButCode ==
    [exclude_title |-> FALSE,
     exclude_title_processes |-> << <<"c", "h", "r", "o", "m", "e">>, <<".", "e", "x", "e">> >>,
     include_title_processes |-> << <<"c", "o", "d", "e">> >>]
WithPoll(rules, p) ==
    [exclude_title |-> rules.exclude_title,
     exclude_title_processes |-> rules.exclude_title_processes,
     include_title_processes |-> rules.include_title_processes,
     poll_time |-> p]

\* the command lines explored: rules with the default poll time, and short poll times
ArgSets ==
    {WithPoll(NoRules, <<0, DefaultPollLo>>),
     WithPoll(ExcludeAllButCode, <<0, 0>>),
     WithPoll(ExcludeButCode, <<0, 1>>)}

\* The clock's origin is chosen so that a poll loop entered at once first polls at 0.
Init ==
    /\ args \in ArgSets
    /\ overflow_checks = FALSE
    /\ pc = "create_bucket"
    /\ prev_app = EmptyString
    /\ prev_title = EmptyString
    /\ now = 0 - U32ToInt(args.poll_time)
    /\ bucket = FALSE
    /\ creates = 0
    /\ sent = <<>>
    /\ log = <<>>

\* CreateBucketErr, leaving the creation loop although the call failed
CreateBucketErrBreaks ==
    /\ pc = "create_bucket"
    /\ creates < MaxCreateFails
    /\ creates' = creates + 1
    /\ now' = now + BucketBackoff
    /\ pc' = "poll"
    /\ UNCHANGED <<args, overflow_checks, prev_app, prev_title, bucket, sent, log>>

\* main.rs:64-69: create_bucket_simple fails; report, sleep 1000 ms and retry
CreateBucketErr ==
    /\ pc = "create_bucket"
    /\ creates < MaxCreateFails
    /\ creates' = creates + 1
    /\ now' = now + BucketBackoff
    /\ UNCHANGED <<args, overflow_checks, pc, prev_app, prev_title, bucket, sent, log>>

\* main.rs:64-65: create_bucket_simple succeeds; break
CreateBucketOk ==
    /\ pc = "create_bucket"
    /\ creates' = creates + 1
    /\ bucket' = TRUE
    /\ pc' = "poll"
    /\ UNCHANGED <<args, overflow_checks, prev_app, prev_title, now, sent, log>>

----------------------------------------------------------------------------
(* The poll loop: main.rs:76-183 *)

\* PollTime, the sleep of main.rs:77 returning at once
PollTimeUnslept == U32ToInt(<<0, 0>>)

\* main.rs:77: the length of one sleep, in ms
PollTime == U32ToInt(args.poll_time)

\* the record of an iteration that gave up before a sample was formed
Skipped(kind) ==
    [kind |-> kind, process_name |-> EmptyString, window_title |-> EmptyString,
     app |-> EmptyString, title |-> EmptyString, at |-> now + PollTime,
     before_app |-> prev_app, before_title |-> prev_title, sleeps |-> PendingSleeps + 1]

\* the record of an iteration that reached main.rs:139
Sampled(process_name, window_title) ==
    [kind |-> "sample", process_name |-> process_name, window_title |-> window_title,
     app |-> App(process_name), title |-> Title(process_name, window_title),
     at |-> now + PollTime,
     before_app |-> prev_app, before_title |-> prev_title, sleeps |-> PendingSleeps + 1]

\* NoActiveWindow, feeding an empty sample to the comparison instead of skipping
NoActiveWindowFeedsEmpty ==
    /\ pc = "poll"
    /\ tick < MaxTicks
    /\ now' = now + PollTime + PollTime
    /\ log' = Append(log, Skipped("no_window"))
    /\ sent' = Append(sent, Heartbeat(prev_app, prev_title, now + PollTime - 1, TRUE))
    /\ prev_app' = EmptyString
    /\ prev_title' = EmptyString
    /\ UNCHANGED <<args, overflow_checks, pc, bucket, creates>>

\* main.rs:77-86: GetForegroundWindow gives None; sleep once more and continue
NoActiveWindow ==
    /\ pc = "poll"
    /\ tick < MaxTicks
    /\ now' = now + PollTime + PollTime
    /\ log' = Append(log, Skipped("no_window"))
    /\ UNCHANGED <<args, overflow_checks, pc, prev_app, prev_title, bucket, creates, sent>>

\* an iteration that sleeps (main.rs:77), fails in the platform layer and continues
PlatformErr ==
    /\ pc = "poll"
    /\ tick < MaxTicks
    /\ now' = now + PollTime
    /\ log' = Append(log, Skipped("error"))
    /\ UNCHANGED <<args, overflow_checks, pc, prev_app, prev_title, bucket, creates, sent>>

\* main.rs:90-97: OpenProcess fails
OpenProcessErr == PlatformErr

\* main.rs:99-106: QueryFullProcessImageName fails
QueryFullProcessImageNameErr == PlatformErr

\* main.rs:108-115: the file name is not valid Unicode
ProcessNameErr == PlatformErr

\* main.rs:117-123: GetWindowText fails
GetWindowTextErr == PlatformErr

\* Continue, dropping the tracked sample when the send fails
ContinueForgetsOnErr(process_name, window_title, ok) ==
    LET app == App(process_name)
        title == Title(process_name, window_title)
    IN  /\ pc = "poll"
        /\ tick < MaxTicks
        /\ app = prev_app /\ title = prev_title
        /\ ~PingPanics
        /\ now' = now + PollTime
        /\ sent' = Append(sent, Heartbeat(app, title, now', ok))
        /\ log' = Append(log, Sampled(process_name, window_title))
        /\ prev_app' = IF ok THEN prev_app ELSE EmptyString
        /\ prev_title' = IF ok THEN prev_title ELSE EmptyString
        /\ UNCHANGED <<args, overflow_checks, pc, bucket, creates>>

\* main.rs:139-148: the sample is the tracked one; one ping, whatever its outcome
Continue(process_name, window_title, ok) ==
    LET app == App(process_name)
        title == Title(process_name, window_title)
    IN  /\ pc = "poll"
        /\ tick < MaxTicks
        /\ app = prev_app /\ title = prev_title
        /\ ~PingPanics
        /\ now' = now + PollTime
        /\ sent' = Append(sent, Heartbeat(app, title, now', ok))
        /\ log' = Append(log, Sampled(process_name, window_title))
        /\ UNCHANGED <<args, overflow_checks, pc, prev_app, prev_title, bucket, creates>>

\* TransitionCloseErr, tracking the new sample although the closing ping failed
TransitionCloseErrAdvances(process_name, window_title) ==
    LET app == App(process_name)
        title == Title(process_name, window_title)
    IN  /\ pc = "poll"
        /\ tick < MaxTicks
        /\ ~(app = prev_app /\ title = prev_title)
        /\ ~PingPanics
        /\ now' = now + PollTime
        /\ sent' = Append(sent, Heartbeat(prev_app, prev_title, now' - 1, FALSE))
        /\ log' = Append(log, Sampled(process_name, window_title))
        /\ prev_app' = app
        /\ prev_title' = title
        /\ UNCHANGED <<args, overflow_checks, pc, bucket, creates>>

\* TransitionCloseErr, the error of the failed closing ping propagated out of main
TransitionCloseErrExits(process_name, window_title) ==
    LET app == App(process_name)
        title == Title(process_name, window_title)
    IN  /\ pc = "poll"
        /\ tick < MaxTicks
        /\ ~(app = prev_app /\ title = prev_title)
        /\ ~PingPanics
        /\ now' = now + PollTime
        /\ sent' = Append(sent, Heartbeat(prev_app, prev_title, now' - 1, FALSE))
        /\ log' = Append(log, Sampled(process_name, window_title))
        /\ pc' = "exited"
        /\ UNCHANGED <<args, overflow_checks, prev_app, prev_title, bucket, creates>>

\* TransitionCloseErr, going on to the opening ping after the failed closing ping
TransitionCloseErrThenOpen(process_name, window_title) ==
    LET app == App(process_name)
        title == Title(process_name, window_title)
    IN  /\ pc = "poll"
        /\ tick < MaxTicks
        /\ ~(app = prev_app /\ title = prev_title)
        /\ ~PingPanics
        /\ now' = now + PollTime
        /\ sent' = sent \o <<Heartbeat(prev_app, prev_title, now' - 1, FALSE),
                             Heartbeat(app, title, now', TRUE)>>
        /\ log' = Append(log, Sampled(process_name, window_title))
        /\ UNCHANGED <<args, overflow_checks, pc, prev_app, prev_title, bucket, creates>>

\* main.rs:150-168: the sample differs and the ping of the previous sample fails; continue
TransitionCloseErr(process_name, window_title) ==
    LET app == App(process_name)
        title == Title(process_name, window_title)
    IN  /\ pc = "poll"
        /\ tick < MaxTicks
        /\ ~(app = prev_app /\ title = prev_title)
        /\ ~PingPanics
        /\ now' = now + PollTime
        /\ sent' = Append(sent, Heartbeat(prev_app, prev_title, now' - 1, FALSE))
        /\ log' = Append(log, Sampled(process_name, window_title))
        /\ UNCHANGED <<args, overflow_checks, pc, prev_app, prev_title, bucket, creates>>

\* TransitionOpenErr, tracking the new sample although its ping failed
TransitionOpenErrAdvances(process_name, window_title) ==
    LET app == App(process_name)
        title == Title(process_name, window_title)
    IN  /\ pc = "poll"
        /\ tick < MaxTicks
        /\ ~(app = prev_app /\ title = prev_title)
        /\ ~PingPanics
        /\ now' = now + PollTime
        /\ sent' = sent \o <<Heartbeat(prev_app, prev_title, now' - 1, TRUE),
                             Heartbeat(app, title, now', FALSE)>>
        /\ log' = Append(log, Sampled(process_name, window_title))
        /\ prev_app' = app
        /\ prev_title' = title
        /\ UNCHANGED <<args, overflow_checks, pc, bucket, creates>>

\* main.rs:150-179: the ping of the previous sample succeeds, that of the new one fails; continue
TransitionOpenErr(process_name, window_title) ==
    LET app == App(process_name)
        title == Title(process_name, window_title)
    IN  /\ pc = "poll"
        /\ tick < MaxTicks
        /\ ~(app = prev_app /\ title = prev_title)
        /\ ~PingPanics
        /\ now' = now + PollTime
        /\ sent' = sent \o <<Heartbeat(prev_app, prev_title, now' - 1, TRUE),
                             Heartbeat(app, title, now', FALSE)>>
        /\ log' = Append(log, Sampled(process_name, window_title))
        /\ UNCHANGED <<args, overflow_checks, pc, prev_app, prev_title, bucket, creates>>

\* TransitionOk, without the assignment of main.rs:182: the tracked title stays
TransitionOkKeepsTitle(process_name, window_title) ==
    LET app == App(process_name)
        title == Title(process_name, window_title)
    IN  /\ pc = "poll"
        /\ tick < MaxTicks
        /\ ~(app = prev_app /\ title = prev_title)
        /\ ~PingPanics
        /\ now' = now + PollTime
        /\ sent' = sent \o <<Heartbeat(prev_app, prev_title, now' - 1, TRUE),
                             Heartbeat(app, title, now', TRUE)>>
        /\ log' = Append(log, Sampled(process_name, window_title))
        /\ prev_app' = app
        /\ UNCHANGED <<args, overflow_checks, pc, prev_title, bucket, creates>>

\* TransitionOk, stamping the closing ping with now instead of now - 1 ms
TransitionOkSameInstant(process_name, window_title) ==
    LET app == App(process_name)
        title == Title(process_name, window_title)
    IN  /\ pc = "poll"
        /\ tick < MaxTicks
        /\ ~(app = prev_app /\ title = prev_title)
        /\ ~PingPanics
        /\ now' = now + PollTime
        /\ sent' = sent \o <<Heartbeat(prev_app, prev_title, now', TRUE),
                             Heartbeat(app, title, now', TRUE)>>
        /\ log' = Append(log, Sampled(process_name, window_title))
        /\ prev_app' = app
        /\ prev_title' = title
        /\ UNCHANGED <<args, overflow_checks, pc, bucket, creates>>

\* main.rs:150-182: both pings succeed; the new sample becomes the tracked one
TransitionOk(process_name, window_title) ==
    LET app == App(process_name)
        title == Title(process_name, window_title)
    IN  /\ pc = "poll"
        /\ tick < MaxTicks
        /\ ~(app = prev_app /\ title = prev_title)
        /\ ~PingPanics
        /\ now' = now + PollTime
        /\ sent' = sent \o <<Heartbeat(prev_app, prev_title, now' - 1, TRUE),
                             Heartbeat(app, title, now', TRUE)>>
        /\ log' = Append(log, Sampled(process_name, window_title))
        /\ prev_app' = app
        /\ prev_title' = title
        /\ UNCHANGED <<args, overflow_checks, pc, bucket, creates>>

Next ==
    \/ CreateBucketErr
    \/ CreateBucketOk
    \/ NoActiveWindow
    \/ OpenProcessErr
    \/ QueryFullProcessImageNameErr
    \/ ProcessNameErr
    \/ GetWindowTextErr
    \/ \E p \in ProcessNames, w \in WindowTitles, ok \in BOOLEAN : Continue(p, w, ok)
    \/ \E p \in ProcessNames, w \in WindowTitles : TransitionCloseErr(p, w)
    \/ \E p \in ProcessNames, w \in WindowTitles : TransitionOpenErr(p, w)
    \/ \E p \in ProcessNames, w \in WindowTitles : TransitionOk(p, w)

Spec == Init /\ [][Next]_vars

----------------------------------------------------------------------------
(* ping alone (main.rs:186-204), for every poll_time near the ends of u32 *)

MaxPings == 1

PollLows == {0, 1, DefaultPollLo, Limb - PulseMargin - 1, Limb - PulseMargin, Limb - 1}
BoundaryPollTimes == {0, Limb - 1} \X PollLows

InitPing ==
    /\ args \in {WithPoll(NoRules, p) : p \in BoundaryPollTimes}
    /\ overflow_checks \in BOOLEAN
    /\ pc = "poll"
    /\ prev_app = EmptyString
    /\ prev_title = EmptyString
    /\ now = 0
    /\ bucket = TRUE
    /\ creates = 1
    /\ sent = <<>>
    /\ log = <<>>

\* main.rs:193-203: the sum does not panic; the event goes to client.heartbeat
Ping(app, title, ok) ==
    /\ pc = "poll"
    /\ Len(sent) < MaxPings
    /\ ~PingPanics
    /\ sent' = Append(sent, Heartbeat(app, title, now, ok))
    /\ UNCHANGED <<args, overflow_checks, pc, prev_app, prev_title, now, bucket, creates, log>>

\* main.rs:202: poll_time + 1000 overflows in a build with overflow checks; the process dies
PingOverflowPanic ==
    /\ pc = "poll"
    /\ PingPanics
    /\ pc' = "panicked"
    /\ UNCHANGED <<args, overflow_checks, prev_app, prev_title, now, bucket, creates, sent, log>>

NextPing ==
    \/ \E p \in ProcessNames, w \in WindowTitles, ok \in BOOLEAN : Ping(p, w, ok)
    \/ PingOverflowPanic

SpecPing == InitPing /\ [][NextPing]_vars

----------------------------------------------------------------------------
(* The title decision alone (main.rs:125-137), for every rule set over a pool of patterns *)

MaxPatterns == 2

\* the last one, `.(`, is no regular expression
PatternPool ==
    {<<"c", "h", "r", "o", "m", "e">>, <<"c", "o", ".", "e">>, <<".", "e", "x", "e">>, <<".", "(">>}

\* process names, two of them with characters that regex::escape escapes
RedactProcessNames == ProcessNames \cup {dot_paren, x_paren}

PatternLists == UNION {[1 .. n -> PatternPool] : n \in 0 .. MaxPatterns}

InitRedact ==
    /\ args \in {WithPoll([exclude_title |-> g, exclude_title_processes |-> e,
                           include_title_processes |-> n], <<0, DefaultPollLo>>) :
                     g \in BOOLEAN, e \in PatternLists, n \in PatternLists}
    /\ overflow_checks = FALSE
    /\ pc = "poll"
    /\ prev_app = EmptyString
    /\ prev_title = EmptyString
    /\ now = 0 - U32ToInt(args.poll_time)
    /\ bucket = TRUE
    /\ creates = 1
    /\ sent = <<>>
    /\ log = <<>>

\* main.rs:77-137 of the first iteration: the sample formed from an observation
Normalize(process_name, window_title) ==
    /\ pc = "poll"
    /\ log = <<>>
    /\ now' = now + PollTime
    /\ log' = <<Sampled(process_name, window_title)>>
    /\ UNCHANGED <<args, overflow_checks, pc, prev_app, prev_title, bucket, creates, sent>>

NextRedact == \E p \in RedactProcessNames, w \in WindowTitles : Normalize(p, w)

SpecRedact == InitRedact /\ [][NextRedact]_vars

----------------------------------------------------------------------------
(* The program run without end.  `sent`, `log` and `creates` record what    *)
(* happened and are read by no line of main.rs; every LiveWindow iterations *)
(* the records are dropped and the clock's origin moved, which keeps the    *)
(* state space finite while the poll loop runs for ever.                    *)

LiveWindow == 2

\* the records of the past iterations are dropped; what the program holds stays
Forget ==
    /\ pc = "poll"
    /\ tick >= LiveWindow
    /\ log' = <<>>
    /\ sent' = <<>>
    /\ now' = 0
    /\ creates' = 1
    /\ UNCHANGED <<args, overflow_checks, pc, prev_app, prev_title, bucket>>

NextLive ==
    \/ tick < LiveWindow /\ Next
    \/ Forget

\* main is one thread in which every call returns: the step that is next is taken
SpecLive == Init /\ [][NextLive]_vars /\ WF_vars(NextLive)

----------------------------------------------------------------------------
(* Vocabulary of the properties *)

\* the tracked sample when iteration i began, the sample it formed, the tracked sample when it ended
Before(i) == <<log[i].before_app, log[i].before_title>>
Sample(i) == <<log[i].app, log[i].title>>
After(i) ==
    IF i = Len(log) THEN <<prev_app, prev_title>>
    ELSE <<log[i + 1].before_app, log[i + 1].before_title>>

\* the heartbeats of iteration i as <<app, title>>, timestamp pairs, in call order
Emitted(i) ==
    [k \in 1 .. Len(HeartbeatsOf(i)) |->
        <<<<HeartbeatsOf(i)[k].app, HeartbeatsOf(i)[k].title>>, HeartbeatsOf(i)[k].timestamp>>]

IsFirstFed(i) == i \in FedTicks /\ \A j \in FedTicks : j >= i
IsContinuation(i) == i \in FedTicks /\ Sample(i) = Before(i)
IsTransition(i) == i \in FedTicks /\ Sample(i) # Before(i)
IsSkipped(i) == i \in DOMAIN log /\ log[i].kind \in {"no_window", "error"}

----------------------------------------------------------------------------
(* C1 *)

\* C1: the first iteration that feeds a sample N to the comparison of main.rs:139 hands
\* the client exactly one heartbeat, (N, now), and no closing heartbeat.
C1_ColdStartOneHeartbeat ==
    \A i \in DOMAIN log :
        IsFirstFed(i) => Emitted(i) = << <<Sample(i), log[i].at>> >>

----------------------------------------------------------------------------
(* C2 *)

----------------------------------------------------------------------------
(* C3 *)

----------------------------------------------------------------------------
(* C4 *)

----------------------------------------------------------------------------
(* C5 *)

\* C5: an iteration whose sample N equals the tracked sample (app and title) hands the
\* client exactly one heartbeat, (N, now), and leaves the tracked sample as it was,
\* whether the send succeeds or fails.
C5_Continuation ==
    \A i \in DOMAIN log :
        IsContinuation(i) =>
            /\ Emitted(i) = << <<Sample(i), log[i].at>> >>
            /\ After(i) = Before(i)

\* a keep-alive whose send failed
C5_Witness ==
    \E i \in DOMAIN log :
        IsContinuation(i) /\ Len(HeartbeatsOf(i)) = 1 /\ ~HeartbeatsOf(i)[1].ok

----------------------------------------------------------------------------
(* C6 *)

\* C6: with no redaction rules, poll_time 5000 and every send succeeding, the observations
\* (chrome.exe, Docs), (chrome.exe, Docs), (code.exe, main.rs) at 0, 5000 and 10000 ms give
\* exactly the heartbeats (chrome.exe/Docs, 0), (chrome.exe/Docs, 5000),
\* (chrome.exe/Docs, 9999), (code.exe/main.rs, 10000).
C6_EndToEnd ==
    ( /\ args = WithPoll(NoRules, <<0, DefaultPollLo>>)
      /\ [i \in DOMAIN log |-> <<log[i].kind, log[i].process_name, log[i].window_title, log[i].at>>]
           = << <<"sample", chrome_exe, Docs, 0>>,
                <<"sample", chrome_exe, Docs, 5000>>,
                <<"sample", code_exe, main_rs, 10000>> >>
      /\ \A k \in DOMAIN sent : sent[k].ok )
    => [k \in DOMAIN sent |-> <<<<sent[k].app, sent[k].title>>, sent[k].timestamp>>]
           = << <<<<chrome_exe, Docs>>, 0>>,
                <<<<chrome_exe, Docs>>, 5000>>,
                <<<<chrome_exe, Docs>>, 9999>>,
                <<<<code_exe, main_rs>>, 10000>> >>

----------------------------------------------------------------------------
(* C7 *)

\* which pattern of PatternPool matches which process name, by the regex crate's rules:
\* `chrome` is in chrome.exe only, `co.e` finds `code` in code.exe only, `.exe` finds
\* `e.exe` in chrome.exe and code.exe only, and `.(`, taken literally, is in `a.(` only
C7_PoolMatches(pattern, process_name) ==
    \/ pattern = <<"c", "h", "r", "o", "m", "e">> /\ process_name = chrome_exe
    \/ pattern = <<"c", "o", ".", "e">> /\ process_name = code_exe
    \/ pattern = <<".", "e", "x", "e">> /\ process_name \in {chrome_exe, code_exe}
    \/ pattern = <<".", "(">> /\ process_name = dot_paren

\* C7: the reported title is the process name when (exclude_title is set or some exclude
\* pattern matches the process name) and no include pattern matches it, and the raw window
\* title otherwise; so a matching include pattern gives the raw title even under
\* exclude_title; the reported app is the process name.
C7_TitleRedaction ==
    \A i \in DOMAIN log :
        log[i].kind = "sample" =>
            LET r == log[i]
                excluded == \E k \in DOMAIN args.exclude_title_processes :
                                C7_PoolMatches(args.exclude_title_processes[k], r.process_name)
                included == \E k \in DOMAIN args.include_title_processes :
                                C7_PoolMatches(args.include_title_processes[k], r.process_name)
            IN  /\ r.title = IF (args.exclude_title \/ excluded) /\ ~included
                             THEN r.process_name ELSE r.window_title
                /\ included => r.title = r.window_title
                /\ r.app = r.process_name

\* exclude_title is set, an exclude pattern and an include pattern both match: the raw title
C7_Witness ==
    /\ log # <<>>
    /\ args.exclude_title
    /\ \E k \in DOMAIN args.exclude_title_processes :
           C7_PoolMatches(args.exclude_title_processes[k], log[1].process_name)
    /\ \E k \in DOMAIN args.include_title_processes :
           C7_PoolMatches(args.include_title_processes[k], log[1].process_name)
    /\ log[1].title = log[1].window_title

----------------------------------------------------------------------------
(* C8 *)

\* C8: the pulsetime handed to the server with each heartbeat, poll_time + 1000 in u32
\* arithmetic, is strictly greater than poll_time, for every u32 poll_time.
C8_MergeWindowExceedsPoll ==
    \A k \in DOMAIN sent : U32Less(args.poll_time, sent[k].pulsetime)

----------------------------------------------------------------------------
(* C9 *)

\* C9: an iteration in which the platform layer gives no usable observation (no foreground
\* window, OpenProcess, QueryFullProcessImageName, the name conversion or GetWindowText
\* failing) sends no heartbeat, leaves the tracked sample as it was, and leaves the process
\* in the poll loop.
C9_SkippedTick ==
    \A i \in DOMAIN log :
        IsSkipped(i) =>
            /\ HeartbeatsOf(i) = <<>>
            /\ After(i) = Before(i)
            /\ pc = "poll"

\* a sample is tracked, then an iteration finds no window and a later one fails
C9_Witness ==
    \E i, j \in DOMAIN log :
        /\ i < j
        /\ log[i].kind = "no_window"
        /\ log[j].kind = "error"
        /\ Before(i) # <<EmptyString, EmptyString>>
        /\ After(j) = Before(i)

----------------------------------------------------------------------------
(* C10 *)

\* C10: no iteration of the poll loop runs and no heartbeat is sent before a
\* create_bucket_simple call has succeeded; a failed call leaves the process in the creation
\* loop, where the next call is made; and after a call has succeeded no further call is made.
C10_StartupGate ==
    /\ []((log # <<>> \/ sent # <<>>) => bucket)
    /\ [](~bucket => (pc = "create_bucket" /\ ENABLED CreateBucketOk))
    /\ [][(creates' # creates /\ ~bucket') => pc' = "create_bucket"]_vars
    /\ [][bucket => creates' = creates]_vars

\* a creation failed, the next succeeded, and the poll loop then ran and sent
C10_Witness == creates = 2 /\ bucket /\ log # <<>> /\ sent # <<>>

----------------------------------------------------------------------------
(* C11 *)

\* a step that begins and completes one iteration of the poll loop (sleep, then poll)
TickStep == Len(log') = Len(log) + 1

\* the latest heartbeat handed to the client failed
LastSendFailed == sent # <<>> /\ ~sent[Len(sent)].ok

\* C11: after a failed heartbeat send (keep-alive, closing or opening) the process is still
\* in the poll loop and a next iteration follows; iterations occur infinitely often
\* whatever the outcomes of the sends.  (The iteration after the k-th recorded one is
\* recorded as number k + 1, or as number 1 once the records were dropped.)
C11_LoopSurvivesSendFailures ==
    /\ [](LastSendFailed => pc = "poll")
    /\ \A k \in 1 .. LiveWindow :
           (LastSendFailed /\ Len(log) = k) ~> (Len(log) = (k % LiveWindow) + 1)
    /\ []<><<TickStep>>_vars

\* an iteration whose send failed, and the iteration that followed it
C11_Witness ==
    /\ Len(log) >= 2
    /\ HeartbeatsOf(1) # <<>>
    /\ ~HeartbeatsOf(1)[Len(HeartbeatsOf(1))].ok

----------------------------------------------------------------------------
(* C12 *)

\* iteration i is a transition whose closing ping failed
CloseFailed(i) ==
    IsTransition(i) /\ HeartbeatsOf(i) # <<>> /\ ~HeartbeatsOf(i)[1].ok

\* j is the first iteration after i that reached the comparison of main.rs:139
NextFed(i, j) ==
    j \in FedTicks /\ j > i /\ \A k \in FedTicks : ~(i < k /\ k < j)

----------------------------------------------------------------------------
(* C13 *)

\* the text holds s as it is written
C13_ContainsLiteral(text, s) ==
    \E off \in 0 .. (Len(text) - Len(s)) : SubSeq(text, off + 1, off + Len(s)) = s

\* s is a regular expression: of the model's alphabet only `(` makes it none
C13_IsRegex(s) == \A k \in DOMAIN s : s[k] # "("

\* the patterns as written and as compiled agree: one compiled pattern for each string;
\* that of a regular expression matches as the expression does, that of any other string
\* matches the texts that hold the string as it is written; and every unwrap succeeds
C13_CompiledAs(written, compiled) ==
    /\ DOMAIN compiled = DOMAIN written
    /\ \A k \in DOMAIN written :
           /\ RegexNew(written[k]).ok \/ RegexNew(RegexEscape(written[k])).ok
           /\ C13_IsRegex(written[k]) => compiled[k] = RegexNew(written[k]).re
           /\ \A t \in RedactProcessNames :
                  IsMatch(compiled[k], t) <=>
                      IF C13_IsRegex(written[k])
                      THEN C7_PoolMatches(written[k], t)
                      ELSE C13_ContainsLiteral(t, written[k])

\* C13: every exclude and include pattern string gives exactly one compiled pattern: a valid
\* regular expression is used as that regex, a string that does not compile is replaced by
\* a pattern matching its literal text; none is dropped, and startup does not abort.
C13_PatternFallback ==
    /\ C13_CompiledAs(args.exclude_title_processes, exclude_title_processes)
    /\ C13_CompiledAs(args.include_title_processes, include_title_processes)
    /\ pc = "poll"

\* `.(` is the only rule: the title of `a.(` is suppressed, by the literal match
C13_Witness ==
    /\ log # <<>>
    /\ ~args.exclude_title
    /\ args.exclude_title_processes = << <<".", "(">> >>
    /\ args.include_title_processes = <<>>
    /\ log[1].process_name = dot_paren
    /\ log[1].title = dot_paren

----------------------------------------------------------------------------
(* C14 *)

\* C14: between two consecutive GetForegroundWindow queries exactly one poll_time sleep is
\* performed, also when the earlier query found no foreground window.
C14_OneSleepBetweenQueries ==
    \A i \in DOMAIN log :
        i >= 2 => (log[i].sleeps = 1 /\ log[i].at - log[i - 1].at = PollTime)

----------------------------------------------------------------------------
(* C15 *)

\* sent[k] is the closing ping of a transition: the first heartbeat of its iteration
IsClosing(k) ==
    /\ IsTransition(sent[k].tick)
    /\ (k = 1 \/ sent[k - 1].tick # sent[k].tick)

\* sent[k] is the opening ping of a transition: the second heartbeat of its iteration
IsOpening(k) == k > 1 /\ sent[k - 1].tick = sent[k].tick

\* the sample of the latest opening ping delivered among the first n heartbeats, or the
\* initial ("", "") when there is none
LastDeliveredOpening(n) ==
    LET delivered == {k \in 1 .. n : IsOpening(k) /\ sent[k].ok}
    IN  IF delivered = {} THEN <<EmptyString, EmptyString>>
        ELSE LET k == CHOOSE m \in delivered : \A o \in delivered : o <= m
             IN  <<sent[k].app, sent[k].title>>

\* C15: the tracked sample changes only at the end of a transition iteration whose closing
\* and opening pings both succeeded; so it is always the initial ("", "") or the sample of
\* the latest delivered opening heartbeat, and every closing heartbeat carries such a sample.
C15_TrackedIsLastDelivered ==
    /\ \A i \in DOMAIN log :
           After(i) # Before(i) =>
               /\ IsTransition(i)
               /\ Len(HeartbeatsOf(i)) = 2
               /\ HeartbeatsOf(i)[1].ok /\ HeartbeatsOf(i)[2].ok
               /\ After(i) = Sample(i)
    /\ <<prev_app, prev_title>> = LastDeliveredOpening(Len(sent))
    /\ \A k \in DOMAIN sent :
           IsClosing(k) => <<sent[k].app, sent[k].title>> = LastDeliveredOpening(k - 1)

\* an opening was delivered, a later opening failed, and the earlier sample is still tracked
C15_Witness ==
    /\ sent # <<>>
    /\ IsOpening(Len(sent))
    /\ ~sent[Len(sent)].ok
    /\ <<prev_app, prev_title>> # <<EmptyString, EmptyString>>
    /\ <<prev_app, prev_title>> = LastDeliveredOpening(Len(sent))

----------------------------------------------------------------------------
(* C16 *)

\* C16: with a poll_time of at least 1 ms (and the clock never going back), the timestamps
\* of the heartbeats handed to the client never decrease in call order: a closing
\* heartbeat, stamped now - 1 ms, is not earlier than a heartbeat of an earlier iteration.
C16_TimestampsOrdered ==
    U32ToInt(args.poll_time) >= 1 =>
        \A k, l \in DOMAIN sent : k < l => sent[k].timestamp <= sent[l].timestamp

\* poll_time is 1 ms and a closing heartbeat carries the timestamp of the heartbeat that
\* the iteration before it sent
C16_Witness ==
    /\ U32ToInt(args.poll_time) = 1
    /\ \E k \in DOMAIN sent :
           /\ k > 1
           /\ IsClosing(k)
           /\ sent[k - 1].tick < sent[k].tick
           /\ sent[k - 1].timestamp = sent[k].timestamp

\* with a poll_time of 0 ms the order is broken: a closing heartbeat is stamped earlier
\* than the heartbeat sent before it
C16_PollZeroDisorder ==
    /\ U32ToInt(args.poll_time) = 0
    /\ \E k \in DOMAIN sent : k > 1 /\ IsClosing(k) /\ sent[k - 1].timestamp > sent[k].timestamp

----------------------------------------------------------------------------
(* C17 *)

\* the samples an iteration can form: a process name with a window title or, the title
\* suppressed, with itself
SampleSpace == ProcessNames \X (WindowTitles \cup ProcessNames)

\* the heartbeats of the iteration a step completes
NewHeartbeats == SelectSeq(sent', LAMBDA h : h.tick = Len(log'))

\* a step that is an iteration forms the sample N, and every send of it succeeds
ObservesDelivered(N) ==
    TickStep =>
        /\ log'[Len(log')].kind = "sample"
        /\ <<log'[Len(log')].app, log'[Len(log')].title>> = N
        /\ \A k \in DOMAIN NewHeartbeats : NewHeartbeats[k].ok

\* a step that is an iteration hands the client exactly one heartbeat, (N, now)
OneHeartbeatOf(N) ==
    TickStep =>
        /\ Len(NewHeartbeats) = 1
        /\ <<NewHeartbeats[1].app, NewHeartbeats[1].title>> = N
        /\ NewHeartbeats[1].timestamp = now'

\* an iteration whose sample differs from the tracked one pings the closing heartbeat of the
\* tracked sample first and, if it pings again, the opening heartbeat of its sample next
CloseBeforeOpen ==
    \A i \in DOMAIN log :
        IsTransition(i) =>
            /\ HeartbeatsOf(i) # <<>>
            /\ Emitted(i)[1] = <<Before(i), log[i].at - 1>>
            /\ Len(HeartbeatsOf(i)) > 1 =>
                   (HeartbeatsOf(i)[1].ok /\ Emitted(i)[2] = <<Sample(i), log[i].at>>)

\* C17: if from some iteration on every iteration forms the same sample N and every send
\* succeeds, then eventually the tracked sample is N for good and from then on every
\* iteration hands the client exactly one heartbeat (N, now); and until both pings of a
\* transition succeed, an iteration observing N pings the closing heartbeat of the old
\* tracked sample again, before the opening heartbeat of N.
C17_ConvergesToObserved ==
    /\ []CloseBeforeOpen
    /\ \A N \in SampleSpace :
           <>[][ObservesDelivered(N)]_vars =>
               (<>[](<<prev_app, prev_title>> = N) /\ <>[][OneHeartbeatOf(N)]_vars)

\* the close of the old tracked sample failed while N was observed, the next iteration
\* pinged it again, both its pings succeeded, and N is tracked
C17_Witness ==
    /\ Len(log) = 2
    /\ CloseFailed(1)
    /\ Sample(2) = Sample(1)
    /\ IsTransition(2)
    /\ Before(2) = Before(1)
    /\ Len(HeartbeatsOf(2)) = 2
    /\ HeartbeatsOf(2)[2].ok
    /\ <<prev_app, prev_title>> = Sample(2)

====
